---------------------------- MODULE Spec2Model ----------------------------
(***************************************************************************)
(* Model of the Song-recognizer programs: song_recognizer.py (index build  *)
(* or load, then the batch identification loop) and app.py (index load,    *)
(* then the upload and record query paths).                                *)
(*                                                                         *)
(* A landmark is <<time_idx, frequency>> with the frequency in whole Hz;   *)
(* a constellation map is a sequence of landmarks in the order the         *)
(* extractor appends them (by window).  A Python dict is an ordered        *)
(* mapping: the sequence of its keys in insertion order and a function     *)
(* from the keys to the values.                                            *)
(***************************************************************************)
EXTENDS Integers, Sequences, FiniteSets, TLC

VARIABLES
    pc,                 \* position of the running script
    song_files,         \* sorted(glob('database_songs/*.wav')), each file as its constellation map
    disk,               \* database_pickles/: NoFiles or [database, song_index]
    idx,                \* number of reference files already processed by the build loop
    database,           \* hash -> list of <<ref_time, song id>>
    song_index,         \* song id -> position of the file in song_files
    constellation_map,  \* the constellation map last produced
    hashes,             \* the dict last returned by create_hashes
    scores,             \* the list last returned by score_songs
    outcome,            \* what the caller did with scores
    window              \* create_constellation_map's sample rate, audio size, window size, padding

vars == <<pc, song_files, disk, idx, database, song_index, constellation_map,
          hashes, scores, outcome, window>>

----------------------------------------------------------------------------
(* Bounds of the model *)

MaxTime == 3
MaxSongs == 2
MaxWindows == 8
MaxRate == 12
MaxAudio == 12

(* Program constants *)

num_peaks == 15
upper_frequency == 23000
frequency_bits == 10
fan_out == 100
min_time_diff == 1
max_time_diff == 10

None == "None"

----------------------------------------------------------------------------
(* Python's ordered dict *)

EmptyDict == [keys |-> <<>>, val |-> <<>>]

DictHas(d, k) == k \in DOMAIN d.val

\* d[k] = v : a new key goes last in iteration order, an old key keeps its place
DictSet(d, k, v) ==
    IF DictHas(d, k) THEN [d EXCEPT !.val[k] = v]
    ELSE [keys |-> Append(d.keys, k), val |-> d.val @@ (k :> v)]

KeySet(d) == {d.keys[n] : n \in DOMAIN d.keys}

Min(a, b) == IF a < b THEN a ELSE b

----------------------------------------------------------------------------
(* create_hashes *)

RECURSIVE BitOr(_, _)
\* Python's | on non-negative integers
BitOr(x, y) ==
    IF x = 0 THEN y
    ELSE IF y = 0 THEN x
    ELSE (IF x % 2 = 1 \/ y % 2 = 1 THEN 1 ELSE 0) + 2 * BitOr(x \div 2, y \div 2)

\* int(freq / upper_frequency * (2 ** frequency_bits)); on a whole number of
\* Hz the float product truncates to the exact quotient
ScaleFreq(freq) == (freq * (2 ^ frequency_bits)) \div upper_frequency

hash_val(freq, other_freq, time_diff) ==
    BitOr(BitOr(ScaleFreq(freq), ScaleFreq(other_freq) * (2 ^ 10)), time_diff * (2 ^ 20))

\* the 1-based positions of constellation_map[idx : idx + 100], idx the
\* 0-based position of the landmark at 1-based position i
SliceWide(cm, i) == i .. Min(i + fan_out, Len(cm))

Slice(cm, i) == i .. Min(i + fan_out - 1, Len(cm))

\* the guard of the continue statement
Skips(time_diff) == time_diff <= min_time_diff \/ time_diff > max_time_diff

RECURSIVE InnerLoop(_, _, _, _)
\* the inner for loop for the anchor at position i: st.j is the position of
\* the next target, st.h the dict so far
InnerLoop(cm, song_id, i, st) ==
    IF st.j \notin Slice(cm, i) THEN st.h
    ELSE LET time_diff == cm[st.j][1] - cm[i][1]
         IN  IF Skips(time_diff)
             THEN InnerLoop(cm, song_id, i, [j |-> st.j + 1, h |-> st.h])
             ELSE InnerLoop(cm, song_id, i,
                      [j |-> st.j + 1,
                       h |-> DictSet(st.h, hash_val(cm[i][2], cm[st.j][2], time_diff),
                                     <<cm[i][1], song_id>>)])

RECURSIVE OuterLoop(_, _, _)
\* the outer for loop: st.i is the position of the next anchor
OuterLoop(cm, song_id, st) ==
    IF st.i > Len(cm) THEN st.h
    ELSE OuterLoop(cm, song_id,
             [i |-> st.i + 1, h |-> InnerLoop(cm, song_id, st.i, [j |-> st.i, h |-> st.h])])

create_hashes(cm, song_id) == OuterLoop(cm, song_id, [i |-> 1, h |-> EmptyDict])

\* the ordered landmark pairs for which the loops reach the dict store
EmittedPairs(cm) ==
    {p \in (DOMAIN cm) \X (DOMAIN cm) :
        p[2] \in Slice(cm, p[1]) /\ ~Skips(cm[p[2]][1] - cm[p[1]][1])}

----------------------------------------------------------------------------
(* score_songs *)

RECURSIVE AddMatches(_, _, _, _, _)
\* the loop over match_list from its entry n on
AddMatches(song_matches, h, sample_time, match_list, n) ==
    IF n > Len(match_list) THEN song_matches
    ELSE LET ref_time == match_list[n][1]
             song == match_list[n][2]
             sofar == IF DictHas(song_matches, song) THEN song_matches.val[song] ELSE <<>>
         IN  AddMatches(DictSet(song_matches, song, Append(sofar, <<h, sample_time, ref_time>>)),
                        h, sample_time, match_list, n + 1)

RECURSIVE CollectMatches(_, _, _, _)
\* the loop over hashes.items() from its item n on
CollectMatches(hs, db, n, song_matches) ==
    IF n > Len(hs.keys) THEN song_matches
    ELSE LET h == hs.keys[n]
         IN  IF h \in DOMAIN db
             THEN CollectMatches(hs, db, n + 1,
                                 AddMatches(song_matches, h, hs.val[h][1], db[h], 1))
             ELSE CollectMatches(hs, db, n + 1, song_matches)

Delta(ref_time, sample_time) == ref_time - sample_time

TallyOnce(offset_scores, delta) == DictSet(offset_scores, delta, 1)

\* offset_scores[delta] += 1, after the default of 0
Tally(offset_scores, delta) ==
    DictSet(offset_scores, delta,
            (IF DictHas(offset_scores, delta) THEN offset_scores.val[delta] ELSE 0) + 1)

RECURSIVE OffsetScores(_, _, _)
\* the histogram loop over a song's matches from its entry n on
OffsetScores(matches, n, offset_scores) ==
    IF n > Len(matches) THEN offset_scores
    ELSE OffsetScores(matches, n + 1,
                      Tally(offset_scores, Delta(matches[n][3], matches[n][2])))

BetterOrEqual(score, max_score) == score >= max_score[2]

Better(score, max_score) == score > max_score[2]

RECURSIVE MaxScore(_, _, _)
\* the loop over offset_scores.items() from its item n on
MaxScore(offset_scores, n, max_score) ==
    IF n > Len(offset_scores.keys) THEN max_score
    ELSE LET offset == offset_scores.keys[n]
             score == offset_scores.val[offset]
         IN  MaxScore(offset_scores, n + 1,
                      IF Better(score, max_score) THEN <<offset, score>> ELSE max_score)

RECURSIVE SongScores(_, _)
\* song_scores.items(): one <<song, <<offset, score>>>> for each song of
\* song_matches, from its item n on
SongScores(song_matches, n) ==
    IF n > Len(song_matches.keys) THEN <<>>
    ELSE LET song == song_matches.keys[n]
         IN  <<(<<song, MaxScore(OffsetScores(song_matches.val[song], 1, EmptyDict),
                                 1, <<0, 0>>)>>)>>
                 \o SongScores(song_matches, n + 1)

RECURSIVE InsertByScore(_, _)
\* item put into a list sorted by score descending, after the items of an
\* equal score
InsertByScore(sorted, item) ==
    IF sorted = <<>> THEN <<item>>
    ELSE IF item[2][2] > sorted[1][2][2] THEN <<item>> \o sorted
    ELSE <<sorted[1]>> \o InsertByScore(Tail(sorted), item)

RECURSIVE SortedByScore(_, _)
\* sorted(items, key=score, reverse=True): stable
SortedByScore(items, n) ==
    IF n = 0 THEN <<>>
    ELSE InsertByScore(SortedByScore(items, n - 1), items[n])

Unsorted(song_scores) == song_scores

Sorted(song_scores) == SortedByScore(song_scores, Len(song_scores))

score_songs(hs, db) == Sorted(SongScores(CollectMatches(hs, db, 1, EmptyDict), 1))

----------------------------------------------------------------------------
(* The index build loop *)

AppendTwice(db, h, entry) ==
    IF h \in DOMAIN db THEN [db EXCEPT ![h] = Append(@, entry)]
    ELSE db @@ (h :> <<entry, entry>>)

Overwrite(db, h, entry) ==
    IF h \in DOMAIN db THEN [db EXCEPT ![h] = <<entry>>]
    ELSE db @@ (h :> <<entry>>)

\* if hash_val not in database: database[hash_val] = []
\* database[hash_val].append(time_idx_tuple)
AppendEntry(db, h, entry) ==
    IF h \in DOMAIN db THEN [db EXCEPT ![h] = Append(@, entry)]
    ELSE db @@ (h :> <<entry>>)

RECURSIVE AppendHashes(_, _, _)
\* the loop over hashes.items() from its item n on
AppendHashes(db, hs, n) ==
    IF n > Len(hs.keys) THEN db
    ELSE AppendHashes(AppendEntry(db, hs.keys[n], hs.val[hs.keys[n]]), hs, n + 1)

RECURSIVE BuildAll(_, _)
\* the database after the build loop has processed files 1 .. n
BuildAll(files, n) ==
    IF n = 0 THEN <<>>
    ELSE AppendHashes(BuildAll(files, n - 1), create_hashes(files[n], n - 1), 1)

\* the song_index of a pass over n files
Catalog(n) == [id \in 0 .. n - 1 |-> id + 1]

----------------------------------------------------------------------------
(* Constellation maps given to the programs *)

\* frequencies of spectral peaks, in Hz: below, at and above upper_frequency
Freqs == {440, 22999, 23000, 23500}

RECURSIVE WindowsToMap(_, _)
\* the landmarks of the windows t .. MaxTime, where peak[t] = 0 is a window
\* without a peak
WindowsToMap(peak, t) ==
    IF t > MaxTime THEN <<>>
    ELSE IF peak[t] = 0 THEN WindowsToMap(peak, t + 1)
    ELSE <<(<<t, peak[t]>>)>> \o WindowsToMap(peak, t + 1)

\* the maps with at most one peak in each of the windows 0 .. MaxTime
SparseMaps(freqs) ==
    {WindowsToMap(peak, 0) : peak \in [0 .. MaxTime -> freqs \cup {0}]}

\* the map of nwin windows of k peaks each, the peaks of a window 400 Hz
\* apart (200 bins of 2 Hz) in ascending order
DenseMap(k, nwin) ==
    [p \in 1 .. k * nwin |-> <<(p - 1) \div k, 400 * (((p - 1) % k) + 1)>>]

DenseMaps == {DenseMap(k, nwin) : k \in 1 .. num_peaks, nwin \in 1 .. MaxWindows}

----------------------------------------------------------------------------
(* Inputs of the programs *)

\* the frequency of the peaks of the recordings the programs are run on
Tones == {440}

Recordings == SparseMaps(Tones)

Corpora == UNION {[1 .. n -> Recordings] : n \in 0 .. MaxSongs}

NoFiles == [exists |-> FALSE, database |-> <<>>, song_index |-> <<>>]

\* database.pickle and song_index.pickle as found in database_pickles/: the
\* database of a build pass, and the song_index of a pass over n files
Pickles ==
    {[exists |-> TRUE, database |-> BuildAll(files, Len(files)), song_index |-> Catalog(n)] :
        files \in Corpora, n \in 0 .. MaxSongs}

IdleWindow == [sample_rate |-> 0, size |-> 0, sample_window_size |-> 0, padding |-> 0]

NoOutcome == [caller |-> "none", result |-> "none"]

----------------------------------------------------------------------------
(* song_recognizer.py and app.py *)

Init ==
    /\ pc \in {"start", "app_start"}
    /\ disk \in {NoFiles} \cup Pickles
    /\ song_files = <<>>
    /\ idx = 0
    /\ database = <<>>
    /\ song_index = <<>>
    /\ constellation_map = <<>>
    /\ hashes = EmptyDict
    /\ scores = <<>>
    /\ outcome = NoOutcome
    /\ window = IdleWindow

\* song_recognizer.py, the branch that loads the pickles
Load ==
    /\ pc = "start"
    /\ disk.exists
    /\ database' = disk.database
    /\ song_index' = disk.song_index
    /\ pc' = "identify"
    /\ UNCHANGED <<song_files, disk, idx, constellation_map, hashes, scores, outcome, window>>

\* song_recognizer.py, the branch that builds: the glob and the empty dicts
StartBuild ==
    /\ pc = "start"
    /\ ~disk.exists
    /\ \E files \in Corpora : song_files' = files
    /\ song_index' = <<>>
    /\ database' = <<>>
    /\ idx' = 0
    /\ pc' = "build"
    /\ UNCHANGED <<disk, constellation_map, hashes, scores, outcome, window>>

\* one pass of the build loop, on song_files[idx] (0-based)
BuildSong ==
    /\ pc = "build"
    /\ idx < Len(song_files)
    /\ song_index' = song_index @@ (idx :> idx + 1)
    /\ constellation_map' = song_files[idx + 1]
    /\ hashes' = create_hashes(song_files[idx + 1], idx)
    /\ database' = AppendHashes(database, hashes', 1)
    /\ idx' = idx + 1
    /\ UNCHANGED <<pc, song_files, disk, scores, outcome, window>>

\* the two pickle.dump calls after the loop
Persist ==
    /\ pc = "build"
    /\ idx = Len(song_files)
    /\ disk' = [exists |-> TRUE, database |-> database, song_index |-> song_index]
    /\ pc' = "identify"
    /\ UNCHANGED <<song_files, idx, database, song_index, constellation_map, hashes,
                   scores, outcome, window>>

\* song_id, (offset, match_score) = scores[0]; song_index[song_id]
NameOfTop(sc) ==
    IF sc[1][1] \in DOMAIN song_index THEN "identified" ELSE "KeyError"

\* one pass of the identification loop of song_recognizer.py
Identify ==
    /\ pc = "identify"
    /\ \E cm \in Recordings :
          /\ constellation_map' = cm
          /\ hashes' = create_hashes(cm, None)
    /\ scores' = score_songs(hashes', database)
    /\ outcome' = [caller |-> "batch",
                   result |-> IF scores' = <<>> THEN "IndexError" ELSE NameOfTop(scores')]
    /\ pc' = IF outcome'.result = "identified" THEN "printed" ELSE "crashed"
    /\ UNCHANGED <<song_files, disk, idx, database, song_index, window>>

\* the loop takes the next file; the pass assigns constellation_map, hashes
\* and scores anew before it reads them, so their old values are dropped here
NextFile ==
    /\ pc = "printed"
    /\ pc' = "identify"
    /\ constellation_map' = <<>>
    /\ hashes' = EmptyDict
    /\ scores' = <<>>
    /\ outcome' = NoOutcome
    /\ UNCHANGED <<song_files, disk, idx, database, song_index, window>>

\* identify_files is exhausted
EndIdentify ==
    /\ pc = "identify"
    /\ pc' = "done"
    /\ UNCHANGED <<song_files, disk, idx, database, song_index, constellation_map,
                   hashes, scores, outcome, window>>

\* app.py, the load of the pickles, or the warning without them
AppLoad ==
    /\ pc = "app_start"
    /\ IF disk.exists
       THEN /\ database' = disk.database
            /\ song_index' = disk.song_index
            /\ pc' = "app_ready"
       ELSE /\ pc' = "app_nodb"
            /\ UNCHANGED <<database, song_index>>
    /\ UNCHANGED <<song_files, disk, idx, constellation_map, hashes, scores, outcome, window>>

\* app.py, a query by the upload or the record path
AppQuery(path) ==
    /\ pc = "app_ready"
    /\ \E cm \in Recordings :
          /\ constellation_map' = cm
          /\ hashes' = create_hashes(cm, None)
    /\ scores' = score_songs(hashes', database)
    /\ outcome' = [caller |-> path,
                   result |-> IF scores' # <<>> THEN NameOfTop(scores') ELSE "no_match"]
    /\ pc' = "app_shown"
    /\ UNCHANGED <<song_files, disk, idx, database, song_index, window>>

Upload == AppQuery("upload")

Record == AppQuery("record")

\* the next interaction with the page runs app.py again from its first line
Rerun ==
    /\ pc = "app_shown"
    /\ pc' = "app_start"
    /\ database' = <<>>
    /\ song_index' = <<>>
    /\ constellation_map' = <<>>
    /\ hashes' = EmptyDict
    /\ scores' = <<>>
    /\ outcome' = NoOutcome
    /\ UNCHANGED <<song_files, disk, idx, window>>

Next ==
    \/ Load
    \/ StartBuild
    \/ BuildSong
    \/ Persist
    \/ Identify
    \/ NextFile
    \/ EndIdentify
    \/ AppLoad
    \/ Upload
    \/ Record
    \/ Rerun

\* both programs, on any pickles found in database_pickles/
Spec == Init /\ [][Next]_vars

\* song_recognizer.py started without pickles: it builds the index from
\* database_songs/, saves it and identifies
InitBuild ==
    /\ Init
    /\ pc = "start"
    /\ ~disk.exists

NextBuild ==
    \/ StartBuild
    \/ BuildSong
    \/ Persist
    \/ Identify
    \/ NextFile
    \/ EndIdentify

SpecBuild == InitBuild /\ [][NextBuild]_vars

----------------------------------------------------------------------------
(* Properties of the matcher and of the index, under Spec and SpecBuild *)

\* scores is the result of score_songs(hashes, database)
Scored == outcome.caller # "none"

\* the collisions of the query with the index entries of a song: <<n, m>> for
\* the n-th query hash and the m-th entry of its bucket
Collisions(song) ==
    UNION {{<<n, m>> : m \in {b \in DOMAIN database[hashes.keys[n]] :
                                  database[hashes.keys[n]][b][2] = song}} :
           n \in {q \in DOMAIN hashes.keys : hashes.keys[q] \in DOMAIN database}}

\* ref_time - sample_time of a collision
OffsetOf(c) == database[hashes.keys[c[1]]][c[2]][1] - hashes.val[hashes.keys[c[1]]][1]

\* the histogram of a song: the number of its collisions at an offset
Votes(song, offset) == Cardinality({c \in Collisions(song) : OffsetOf(c) = offset})

\* iteration order: by query hash, then by bucket entry
NotAfter(c, d) == c[1] < d[1] \/ (c[1] = d[1] /\ c[2] <= d[2])

SongsIn(db) == UNION {{db[h][m][2] : m \in DOMAIN db[h]} : h \in DOMAIN db}

C2_RankedCollidingSongs ==
    Scored =>
        /\ \A n \in DOMAIN scores : \A m \in DOMAIN scores :
               n < m => scores[n][2][2] >= scores[m][2][2] /\ scores[n][1] # scores[m][1]
        /\ {scores[n][1] : n \in DOMAIN scores} =
               {song \in SongsIn(database) : Collisions(song) # {}}
        /\ \A n \in DOMAIN scores : scores[n][2][2] >= 1
        /\ (\A song \in SongsIn(database) : Collisions(song) = {}) => scores = <<>>

\* two songs are returned and the top one named, the song indexed second
\* with a greater score than the song indexed first
C2_Witness ==
    /\ outcome.result = "identified"
    /\ Len(scores) = 2
    /\ scores[1][2][2] > scores[2][2][2]
    /\ scores[1][1] > scores[2][1]

\* the query is the unmodified hash map of the only recording of the index
\* the build loop has just built
SelfMatch ==
    /\ outcome.caller = "batch"
    /\ Len(song_files) = 1
    /\ hashes = create_hashes(song_files[1], None)

Colliding == {h \in KeySet(hashes) : h \in DOMAIN database}

\* C3 as stated: a recording matched against the index built from it alone
\* comes first, with offset 0 and the number of colliding hashes as score.
C3_SelfMatchAlways ==
    SelfMatch => scores # <<>> /\ scores[1] = <<0, <<0, Cardinality(Colliding)>>>>

\* C3 amended: the same, for a recording whose hash map is not empty; for one
\* whose hash map is empty the result is the empty list.
C3_SelfMatchNonEmpty ==
    SelfMatch =>
        IF hashes.keys = <<>> THEN scores = <<>>
        ELSE scores = <<(<<0, <<0, Cardinality(Colliding)>>>>)>>

\* a self-match on a recording with two hashes
C3_Witness ==
    /\ SelfMatch
    /\ Len(hashes.keys) = 2
    /\ scores # <<>>

\* C5: every song id of the index is a key of the catalog, whether the index
\* is being built, was built, or was loaded.
C5_CatalogHasEverySong == SongsIn(database) \subseteq DOMAIN song_index

RECURSIVE TotalEntries(_, _)
\* the number of entries in the buckets hs of db
TotalEntries(db, hs) ==
    IF hs = {} THEN 0
    ELSE LET h == CHOOSE x \in hs : TRUE
         IN  Len(db[h]) + TotalEntries(db, hs \ {h})

RECURSIVE TotalHashes(_)
\* the sum of the sizes of the hash maps of the first n reference files
TotalHashes(n) ==
    IF n = 0 THEN 0
    ELSE Len(create_hashes(song_files[n], n - 1).keys) + TotalHashes(n - 1)

\* the bucket of h, empty when there is none
Bucket(db, h) == IF h \in DOMAIN db THEN db[h] ELSE <<>>

\* one pass of the build loop appends to the bucket of each hash of the
\* recording its <<time, song id>> and leaves the other buckets as they are
GrowsByRecording ==
    LET hs == create_hashes(song_files[idx + 1], idx)
    IN  \A h \in DOMAIN database' :
            Bucket(database', h) =
                IF h \in KeySet(hs) THEN Append(Bucket(database, h), <<hs.val[h][1], idx>>)
                ELSE Bucket(database, h)

\* C6: while the index is built no step removes or replaces an entry, a pass
\* of the loop appends one entry for each hash of its recording, and during
\* and right after the build the index holds as many entries as the hash maps
\* processed so far.
C6_IndexOnlyGrows ==
    /\ [](pc = "build" \/ (pc = "identify" /\ song_files # <<>> /\ ~Scored) =>
              TotalEntries(database, DOMAIN database) = TotalHashes(idx))
    /\ [][pc = "build" =>
              /\ \A h \in DOMAIN database :
                     /\ h \in DOMAIN database'
                     /\ SubSeq(database'[h], 1, Len(database[h])) = database[h]
              /\ idx' # idx => GrowsByRecording]_vars

\* two recordings were indexed and share a hash, which has an entry for each
C6_Witness ==
    /\ pc = "identify"
    /\ Len(song_files) = 2
    /\ \E h \in DOMAIN database :
          Len(database[h]) = 2 /\ database[h][1][2] = 0 /\ database[h][2][2] = 1

\* C7: an empty result is a no-match for every caller.
C7_EmptyIsNoMatch == Scored /\ scores = <<>> => outcome.result = "no_match"

\* C10: no bucket holds two entries of one song, so a song's score is the
\* number of query hashes whose entry for the song lies at the reported
\* offset, and is at most the number of query hashes.
C10_OneVotePerHash ==
    /\ \A h \in DOMAIN database : \A m \in DOMAIN database[h] : \A k \in DOMAIN database[h] :
           m # k => database[h][m][2] # database[h][k][2]
    /\ Scored =>
           \A n \in DOMAIN scores :
               /\ scores[n][2][2] =
                      Cardinality({q \in DOMAIN hashes.keys :
                          \E c \in Collisions(scores[n][1]) :
                              c[1] = q /\ OffsetOf(c) = scores[n][2][1]})
               /\ scores[n][2][2] <= Len(hashes.keys)

\* a query with two hashes, one of them in a bucket shared by two songs,
\* scored 2 for one song
C10_Witness ==
    /\ outcome.result = "identified"
    /\ Len(hashes.keys) = 2
    /\ \E n \in DOMAIN scores : scores[n][2][2] = 2
    /\ \E h \in KeySet(hashes) : h \in DOMAIN database /\ Len(database[h]) = 2

----------------------------------------------------------------------------
(* The hasher alone: create_hashes(constellation_map) on one map *)

InitHash ==
    /\ pc = "hash"
    /\ constellation_map \in SparseMaps(Freqs) \cup DenseMaps
    /\ song_files = <<>>
    /\ disk = NoFiles
    /\ idx = 0
    /\ database = <<>>
    /\ song_index = <<>>
    /\ hashes = EmptyDict
    /\ scores = <<>>
    /\ outcome = "none"
    /\ window = IdleWindow

Hash ==
    /\ pc = "hash"
    /\ hashes' = create_hashes(constellation_map, None)
    /\ pc' = "hashed"
    /\ UNCHANGED <<song_files, disk, idx, database, song_index, constellation_map,
                   scores, outcome, window>>

NextHash == Hash

SpecHash == InitHash /\ [][NextHash]_vars

----------------------------------------------------------------------------
(* Properties of the hasher, under SpecHash *)

\* the 30-bit value whose three 10-bit fields are the anchor's scaled
\* frequency, the target's scaled frequency and the time delta
PackedFields(anchor, target) ==
    (ScaleFreq(anchor[2]) % 1024) + 1024 * (ScaleFreq(target[2]) % 1024)
        + 1048576 * (target[1] - anchor[1])

\* the pairs (anchor at position i, target at position j) with the target
\* among the next n landmarks and a time delta of 2 .. 10
PairsWithin(cm, n) ==
    {p \in (DOMAIN cm) \X (DOMAIN cm) :
        /\ p[1] < p[2]
        /\ p[2] <= p[1] + n
        /\ cm[p[2]][1] - cm[p[1]][1] >= 2
        /\ cm[p[2]][1] - cm[p[1]][1] <= 10}

HashesOf(cm, pairs) == {hash_val(cm[p[1]][2], cm[p[2]][2], cm[p[2]][1] - cm[p[1]][1]) : p \in pairs}

\* C4: every hash create_hashes produces is below 2^30 and is the packing of
\* the 10-bit truncations of the anchor's and the target's scaled frequency
\* and of the time delta, also for frequencies at or above 23000 Hz.
C4_HashFieldsDecode ==
    pc = "hashed" =>
        /\ \A k \in KeySet(hashes) : k < 1073741824
        /\ KeySet(hashes) =
               {PackedFields(constellation_map[p[1]], constellation_map[p[2]]) :
                    p \in EmittedPairs(constellation_map)}

----------------------------------------------------------------------------
(* The extractor's window arithmetic alone: the first lines of               *)
(* create_constellation_map on a sample rate and an audio size               *)

\* int(sample_window_duration * sample_rate), then += itself % 2
WindowSize(sample_rate) ==
    LET size == sample_rate \div 2
    IN  size + (size % 2)

InitWindow ==
    /\ pc = "extract"
    /\ window \in [sample_rate : 1 .. MaxRate, size : 0 .. MaxAudio,
                    sample_window_size : {0}, padding : {0}]
    /\ disk = NoFiles
    /\ song_files = <<>>
    /\ idx = 0
    /\ database = <<>>
    /\ song_index = <<>>
    /\ constellation_map = <<>>
    /\ hashes = EmptyDict
    /\ scores = <<>>
    /\ outcome = NoOutcome

\* the window size and the padding; audio.size % 0 raises ZeroDivisionError
Pad ==
    /\ pc = "extract"
    /\ LET sample_window_size == WindowSize(window.sample_rate)
       IN  IF sample_window_size = 0
           THEN /\ window' = [window EXCEPT !.sample_window_size = sample_window_size]
                /\ pc' = "ZeroDivisionError"
           ELSE /\ window' = [window EXCEPT
                               !.sample_window_size = sample_window_size,
                               !.padding = sample_window_size
                                              - (window.size % sample_window_size)]
                /\ pc' = "padded"
    /\ UNCHANGED <<song_files, disk, idx, database, song_index, constellation_map,
                   hashes, scores, outcome>>

NextWindow == Pad

SpecWindow == InitWindow /\ [][NextWindow]_vars

\* C9: for every sample rate of at least 1 and every audio size the window
\* size is even and positive, the half-second sample count rounded up to an
\* even number, and the padding is window size - (size % window size), in
\* 1 .. window size, so that the padded size is a positive multiple of the
\* window size.
C9_WindowPositiveEven ==
    pc # "extract" =>
        /\ window.sample_window_size > 0
        /\ window.sample_window_size % 2 = 0
        /\ window.sample_window_size \in
               {window.sample_rate \div 2, (window.sample_rate \div 2) + 1}
        /\ pc = "padded"
        /\ window.padding = window.sample_window_size
                                - (window.size % window.sample_window_size)
        /\ window.padding \in 1 .. window.sample_window_size
        /\ (window.size + window.padding) % window.sample_window_size = 0
        /\ window.size + window.padding > 0

=============================================================================
